---------------------------- MODULE Spec2Model ----------------------------
(***************************************************************************)
(* The document-ingestion and analysis pipeline of the compliance          *)
(* dashboard: the circular page (CircularDetail: onFileChange, the         *)
(* pendingFile effect, handleAnalyze) and the backend proxy                *)
(* (POST /api/openai/chat with callOpenAIWithRetry).                       *)
(***************************************************************************)
EXTENDS Integers, Sequences, FiniteSets, TLC

(***************************************************************************)
(* Bounds of the model.                                                    *)
(***************************************************************************)
\* file selections (change events of the file input) in one behaviour
MaxSelect == 2
\* analysis runs (clicks on Action / Re-run) in one behaviour
MaxAnalyze == 2
\* ticks a timer may fire late: setTimeout fires at or after its delay
MaxLate == 1

(***************************************************************************)
(* Program constants.                                                      *)
(***************************************************************************)
PageMinChars == 50
AggregateMinChars == 100
SampleChars == 2000
MaxRetries == 2
BaseDelayMs == 2000
MaxDelayMs == 8000
\* one tick of the model's timer, in ms
TickMs == BaseDelayMs

Min(a, b) == IF a <= b THEN a ELSE b

RECURSIVE Pow2(_)
Pow2(n) == IF n = 0 THEN 1 ELSE 2 * Pow2(n - 1)

(***************************************************************************)
(* Strings.  A string is a sequence of tokens: a word, or a punctuation    *)
(* mark; two neighbouring words are separated by one space in the string.  *)
(* A regular expression that is a list of alternatives of literal words    *)
(* matches when one alternative occurs as a run of neighbouring tokens.    *)
(***************************************************************************)
LowerWord(w) ==
  CASE w = "Dev" -> "dev"
    [] w = "DEV" -> "dev"
    [] w = "Development" -> "development"
    [] w = "STUB" -> "stub"
    [] w = "Stub" -> "stub"
    [] w = "Stubbed" -> "stubbed"
    [] w = "Circular" -> "circular"
    [] w = "RBI" -> "rbi"
    [] w = "AB" -> "ab"
    [] w = "Dear" -> "dear"
    [] w = "Sir" -> "sir"
    [] w = "Madam" -> "madam"
    [] w = "OpenAI" -> "openai"
    [] w = "Key" -> "key"
    [] w = "Points" -> "points"
    [] w = "Rate" -> "rate"
    [] w = "Quota" -> "quota"
    [] w = "TRUE" -> "true"
    [] w = "True" -> "true"
    [] OTHER -> w

ToLowerCase(s) == [i \in 1..Len(s) |-> LowerWord(s[i])]

\* needle occurs in s as a run of neighbouring tokens
Occurs(needle, s) ==
  \E i \in 1..(Len(s) - Len(needle) + 1) :
     SubSeq(s, i, i + Len(needle) - 1) = needle

\* /a|b|c/i.test(s), every alternative a literal written in lower case
TestI(alternatives, s) ==
  \E a \in alternatives : Occurs(a, ToLowerCase(s))

(***************************************************************************)
(* Document text.  An extracted text is a sequence of chunks, one per page *)
(* (or one for a whole Word document or image), joined by a blank line     *)
(* ("\n\n", 2 characters).  A chunk carries the selection and page it was  *)
(* read from, how it was read, its number of characters and its leading    *)
(* words.                                                                  *)
(***************************************************************************)
EmptyText == <<>>

Chunk(sel, p, kind, len, words) ==
  [sel |-> sel, p |-> p, kind |-> kind, len |-> len, words |-> words]

RECURSIVE SumLen(_)
SumLen(t) == IF t = <<>> THEN 0 ELSE Head(t).len + SumLen(Tail(t))

\* String.length of the joined text
TextLen(t) == IF t = <<>> THEN 0 ELSE SumLen(t) + 2 * (Len(t) - 1)

\* String.trim(): empty leading and trailing pages leave only white space
RECURSIVE TrimLeft(_)
TrimLeft(t) ==
  IF t = <<>> THEN <<>>
  ELSE IF Head(t).len = 0 THEN TrimLeft(Tail(t)) ELSE t

RECURSIVE TrimRight(_)
TrimRight(t) ==
  IF t = <<>> THEN <<>>
  ELSE IF t[Len(t)].len = 0 THEN TrimRight(SubSeq(t, 1, Len(t) - 1)) ELSE t

Trim(t) == TrimRight(TrimLeft(t))

\* offset of chunk i in the joined text
ChunkStart(t, i) == IF i = 1 THEN 0 ELSE TextLen(SubSeq(t, 1, i - 1)) + 2

\* text.slice(0, n): the chunks that start before offset n (the leading
\* words of a chunk stand at its start)
RECURSIVE WordsBefore(_, _, _)
WordsBefore(t, i, n) ==
  IF i > Len(t) \/ ChunkStart(t, i) >= n THEN <<>>
  ELSE (IF t[i].len = 0 THEN <<>> ELSE t[i].words) \o <<"\n">> \o WordsBefore(t, i + 1, n)

Slice(t, n) == WordsBefore(t, 1, n)

(***************************************************************************)
(* isLikelyCircular (part_000:519-534).                                    *)
(***************************************************************************)
UpperWords == {"RBI", "AB", "SEBI", "DEV", "STUB"}
DigitWords == {"2024", "2025", "01", "12"}

\* /[A-Z]{2,4}\/\d{2,4}[-/]\d{2,4}/ : case sensitive
RefCodeAt(s, i) ==
  /\ i + 4 <= Len(s)
  /\ s[i] \in UpperWords
  /\ s[i + 1] = "/"
  /\ s[i + 2] \in DigitWords
  /\ s[i + 3] \in {"/", "-"}
  /\ s[i + 4] \in DigitWords

TestRefCode(s) == \E i \in 1..Len(s) : RefCodeAt(s, i)

CircularIndicators(s) ==
  << TestI({<<"circular">>}, s),
     TestI({<<"reference", "no">>}, s),
     TestI({<<"rbi">>, <<"sebi">>, <<"irdai">>, <<"pfrda">>, <<"nbfc">>,
            <<"banking">>, <<"regulation">>, <<"compliance">>}, s),
     TestI({<<"dear", "sir", "madam">>, <<"dear", "sir", "/", "madam">>}, s),
     TestI({<<"all", "scheduled", "commercial", "banks">>, <<"all", "banks">>,
            <<"all", "nbfc">>, <<"all", "nbfcs">>}, s),
     TestI({<<"master", "circular">>, <<"master", "direction">>,
            <<"regulatory", "framework">>}, s),
     TestRefCode(s) >>

isLikelyCircular(text) ==
  IF text = EmptyText THEN FALSE
  ELSE LET sampleText == ToLowerCase(Slice(text, SampleChars))
           hits == CircularIndicators(sampleText)
       IN \E k \in 1..Len(hits) : hits[k]

(***************************************************************************)
(* Uploaded files.  A file has a declared MIME type, a name, and content:  *)
(* per page the embedded text layer (d characters, words dw) and what OCR  *)
(* reads from the rendered page (o characters, words ow).  A Word document *)
(* or an image is one page.  corrupt: getDocument / mammoth rejects it.    *)
(***************************************************************************)
PdfMime == "application/pdf"
DocMime == "application/msword"
DocxMime == "application/vnd.openxmlformats-officedocument.wordprocessingml.document"

Page(d, dw, o, ow) == [d |-> d, dw |-> dw, o |-> o, ow |-> ow]

CircularWords == <<"RBI", "/", "2025", "/", "12", "all", "banks">>
ResumeWords == <<"resume", "of", "a", "candidate">>
StampWords == <<"scanned", "with", "a", "phone">>

Files ==
  << \* 1: native two-page circular
     [type |-> PdfMime, name |-> "native.pdf", corrupt |-> FALSE,
      pages |-> << Page(60, CircularWords, 60, CircularWords),
                   Page(60, <<"annex">>, 60, <<"annex">>) >>],
     \* 2: one short page with a text layer
     [type |-> PdfMime, name |-> "short.pdf", corrupt |-> FALSE,
      pages |-> << Page(60, <<"Circular">>, 120, CircularWords) >>],
     \* 3: scanned two-page circular, no text layer
     [type |-> PdfMime, name |-> "scanned.pdf", corrupt |-> FALSE,
      pages |-> << Page(0, <<>>, 120, CircularWords),
                   Page(0, <<>>, 120, <<"annex">>) >>],
     \* 4: a resume with a text layer
     [type |-> PdfMime, name |-> "resume.pdf", corrupt |-> FALSE,
      pages |-> << Page(200, ResumeWords, 200, ResumeWords) >>],
     \* 5: a photographed circular
     [type |-> "image/png", name |-> "photo.png", corrupt |-> FALSE,
      pages |-> << Page(0, <<>>, 120, CircularWords) >>],
     \* 6: a Word circular
     [type |-> DocxMime, name |-> "circular.docx", corrupt |-> FALSE,
      pages |-> << Page(200, CircularWords, 0, <<>>) >>],
     \* 7: not a supported type
     [type |-> "text/plain", name |-> "notes.txt", corrupt |-> FALSE,
      pages |-> << Page(200, CircularWords, 0, <<>>) >>],
     \* 8: a damaged or password-protected PDF
     [type |-> PdfMime, name |-> "broken.pdf", corrupt |-> TRUE,
      pages |-> << >>],
     \* 9: a scanned circular whose only text layer is the scanner's stamp
     [type |-> PdfMime, name |-> "stamped.pdf", corrupt |-> FALSE,
      pages |-> << Page(60, StampWords, 120, CircularWords) >>] >>

\* 10-12: circulars the browser gives no MIME type for
UntypedFiles ==
  << [type |-> "", name |-> "untyped.pdf", corrupt |-> FALSE,
      pages |-> << Page(200, CircularWords, 200, CircularWords) >>],
     [type |-> "", name |-> "untyped.png", corrupt |-> FALSE,
      pages |-> << Page(0, <<>>, 120, CircularWords) >>],
     [type |-> "", name |-> "untyped.docx", corrupt |-> FALSE,
      pages |-> << Page(200, CircularWords, 0, <<>>) >>] >>

\* 13-14: Word documents in the legacy binary format
LegacyFiles ==
  << [type |-> DocMime, name |-> "legacy.doc", corrupt |-> FALSE,
      pages |-> << Page(200, CircularWords, 0, <<>>) >>],
     [type |-> "", name |-> "untyped.doc", corrupt |-> FALSE,
      pages |-> << Page(200, CircularWords, 0, <<>>) >>] >>

\* 15: a Word document that carries a reference code and no other mark of
\* a circular
CodedFiles ==
  << [type |-> DocxMime, name |-> "coded.docx", corrupt |-> FALSE,
      pages |-> << Page(200, <<"AB", "/", "2024", "/", "01", "quarterly", "returns">>,
                        0, <<>>) >>] >>

AllFiles == Files \o UntypedFiles \o LegacyFiles \o CodedFiles

FileIds == 1..Len(Files)
UntypedIds == (Len(Files) + 1)..(Len(Files) + Len(UntypedFiles))
LegacyIds ==
  (Len(Files) + Len(UntypedFiles) + 1)..(Len(Files) + Len(UntypedFiles) + Len(LegacyFiles))
NoFile == 0

\* the extension of a name, lower-cased ("" when none is known)
Ext(name) ==
  CASE name \in {"native.pdf", "short.pdf", "scanned.pdf", "resume.pdf", "broken.pdf",
              "stamped.pdf", "untyped.pdf"} -> "pdf"
    [] name \in {"photo.png", "untyped.png"} -> "png"
    [] name \in {"circular.docx", "untyped.docx", "coded.docx"} -> "docx"
    [] name \in {"legacy.doc", "untyped.doc"} -> "doc"
    [] OTHER -> ""

IsImageMime(t) == t \in {"image/png", "image/jpeg", "image/jpg", "image/webp"}

\* part_000:96-105
isWordFile(f) ==
  \/ f.type = DocxMime
  \/ f.type = DocMime
  \/ Ext(f.name) = "docx"
  \/ Ext(f.name) = "doc"

\* part_000:543-552
validTypes ==
  {PdfMime, DocMime, DocxMime, "image/png", "image/jpeg", "image/jpg", "image/webp"}

IsSupported_AnyFile(f) == TRUE

IsSupported(f) ==
  \/ f.type \in validTypes
  \/ Ext(f.name) \in {"pdf", "doc", "docx", "png", "jpg", "jpeg", "webp"}

(***************************************************************************)
(* Messages shown to the user.                                             *)
(* A message is a sequence of its parts, so that a template string is the  *)
(* concatenation of its literal and of what is put into it.                *)
(***************************************************************************)
NoError == <<>>
NoFileMsg == <<"No file selected">>
InvalidTypeMsg == <<"Please upload a valid PDF, Word document, or image file">>
NotCircularMsg == <<"The uploaded document does not appear to be a circular. Please upload a valid circular document.">>
PdfFailedMsg == <<"Failed to extract text from PDF. The file might be corrupted or password protected.">>
OcrNotReadyMsg == <<"OCR engine not ready">>
ProcessFailedMsg == <<"Failed to process document">>
ProcessingErrorMsg(m) == <<"Error processing file: ">> \o m

(***************************************************************************)
(* extractPdfText, first pass (part_000:206-223): the text layer of the    *)
(* pages in order, stopping at the first page under PageMinChars.          *)
(***************************************************************************)
DirectChunk(sel, f, p) == Chunk(sel, p, "direct", f.pages[p].d, f.pages[p].dw)
OcrChunk(sel, f, p) == Chunk(sel, p, "ocr", f.pages[p].o, f.pages[p].ow)

RECURSIVE DirectFrom(_, _, _)
DirectFrom(sel, f, p) ==
  IF p > Len(f.pages) THEN [isScanned |-> FALSE, fullText |-> <<>>]
  ELSE IF f.pages[p].d < PageMinChars THEN [isScanned |-> TRUE, fullText |-> <<>>]
  ELSE LET rest == DirectFrom(sel, f, p + 1)
       IN [isScanned |-> rest.isScanned,
           fullText |-> <<DirectChunk(sel, f, p)>> \o rest.fullText]

DirectPass(sel, f) == DirectFrom(sel, f, 1)

\* sensitivity variant of DirectReturns: the scanned flag read the wrong way
DirectReturns_Inverted(sel, f) ==
  LET dp == DirectPass(sel, f)
  IN dp.isScanned /\ TextLen(Trim(dp.fullText)) > 0

\* the first pass returns its text: not scanned and some text
DirectReturns(sel, f) ==
  LET dp == DirectPass(sel, f)
  IN ~dp.isScanned /\ TextLen(Trim(dp.fullText)) > 0

(***************************************************************************)
(* POST /api/upload/extract as the server answers it: the handler that is  *)
(* registered first (usePdfJs.ts:310-350) ends every request.              *)
(***************************************************************************)
ServerPdfText(sel, f) ==
  Trim([p \in 1..Len(f.pages) |-> Chunk(sel, p, "server", f.pages[p].d, f.pages[p].dw)])

\* text || 'No text could be extracted'
OrNoText(sel, t) ==
  IF TextLen(t) = 0
  THEN <<Chunk(sel, 1, "placeholder", 26, <<"No", "text", "could", "be", "extracted">>)>>
  ELSE t

UploadExtract(sel, f) ==
  IF f.corrupt THEN [status |-> 500, error |-> <<"Failed to process file">>, text |-> EmptyText]
  ELSE IF f.type = PdfMime
    THEN [status |-> 200, error |-> NoError, text |-> OrNoText(sel, ServerPdfText(sel, f))]
  ELSE IF f.type = DocxMime
    THEN [status |-> 200, error |-> NoError,
          text |-> OrNoText(sel, <<Chunk(sel, 1, "word", f.pages[1].d, f.pages[1].dw)>>)]
  ELSE IF IsImageMime(f.type)
    THEN [status |-> 200, error |-> NoError,
          text |-> <<Chunk(sel, 1, "placeholder", 38, <<"Image", "OCR", "processing">>)>>]
  ELSE [status |-> 400, error |-> <<"Unsupported file type: ", f.type>>, text |-> EmptyText]

(***************************************************************************)
(* State.                                                                  *)
(*   ui        the React state of CircularDetail (part_000:267-282)        *)
(*   notes     titles of the notifications posted so far                   *)
(*   tesseract window.Tesseract is loaded                                  *)
(*   input     the selection held by the file input (0: none)              *)
(*   picker    the file dialog is open                                     *)
(*   sels      the files selected so far, in order                         *)
(*   val       per selection, the onFileChange call in flight              *)
(*   proc      per selection, the processFile call in flight               *)
(*   ana       the handleAnalyze call in flight and the runs started       *)
(*   proxy     the POST /api/openai/chat request in flight at the server   *)
(*   route     a POST /api/upload/extract request of any client in flight  *)
(***************************************************************************)
VARIABLES ui, notes, tesseract, input, picker, sels, val, proc, ana, proxy, route

vars == <<ui, notes, tesseract, input, picker, sels, val, proc, ana, proxy, route>>
uploadVars == <<tesseract, input, picker, sels, val, proc>>

Null == "null"
NoJson == <<>>
NoContent == <<>>

\* a call in flight: where it stands (pc, p, acc), the extraction functions
\* it has called for its file (calls), the pages handed to Tesseract (log),
\* whether one of them threw, and the object URLs it created and revoked
IdleTask ==
  [pc |-> "idle", p |-> 0, acc |-> <<>>, calls |-> 0, log |-> <<>>, threw |-> FALSE,
   created |-> 0, revoked |-> 0]

Sel == 1..Len(sels)
FileOf(i) == AllFiles[sels[i]]
NumPages(i) == Len(FileOf(i).pages)

InitUI ==
  [extracted |-> EmptyText, loading |-> FALSE, aiLoading |-> FALSE,
   aiResult |-> NoContent, error |-> NoError, analysisJson |-> NoJson,
   fileName |-> "", pendingFile |-> NoFile, applicable |-> Null]

\* the CDN script of the OCR engine finishes loading
TesseractLoaded ==
  /\ ~tesseract
  /\ tesseract' = TRUE
  /\ UNCHANGED <<route, ui, notes, input, picker, sels, val, proc, ana, proxy>>

\* part_000:472-476
resetInput(u) == [u EXCEPT !.pendingFile = NoFile, !.fileName = ""]

\* part_000:478-484
clearInputAndState(u) ==
  [resetInput(u) EXCEPT !.error = NoError, !.extracted = EmptyText,
                        !.aiResult = NoContent, !.analysisJson = NoJson]

\* onClick of the file input (part_000:701): the state is cleared and the
\* file dialog opens
ClickInput ==
  /\ ~picker
  /\ picker' = TRUE
  /\ input' = NoFile
  /\ ui' = clearInputAndState(ui)
  /\ UNCHANGED <<route, notes, tesseract, sels, val, proc, ana, proxy>>

\* the dialog is closed without a choice: no change event
CancelPicker ==
  /\ picker
  /\ picker' = FALSE
  /\ UNCHANGED <<route, ui, notes, tesseract, input, sels, val, proc, ana, proxy>>

\* onFileChange up to its first await (part_000:537-561)
SelectFile(fid) ==
  /\ picker
  /\ Len(sels) < MaxSelect
  /\ picker' = FALSE
  /\ sels' = Append(sels, fid)
  /\ input' = Len(sels) + 1
  /\ proc' = Append(proc, IdleTask)
  /\ IF ~IsSupported(AllFiles[fid])
       THEN /\ ui' = [ui EXCEPT !.error = InvalidTypeMsg]
            /\ val' = Append(val, [IdleTask EXCEPT !.pc = "done"])
       ELSE /\ ui' = [ui EXCEPT !.loading = TRUE, !.fileName = AllFiles[fid].name]
            /\ val' = Append(val, [IdleTask EXCEPT !.pc = "extract"])
  /\ UNCHANGED <<route, notes, tesseract, ana, proxy>>

(***************************************************************************)
(* What an extraction step of a task comes to: it goes on with the OCR     *)
(* pass ("more"), returns a text ("text") or throws ("throw").             *)
(***************************************************************************)
More(t) == [kind |-> "more", task |-> t, text |-> EmptyText, msg |-> NoError]
Returns(t, text) == [kind |-> "text", task |-> t, text |-> text, msg |-> NoError]
Throws(t, m) == [kind |-> "throw", task |-> [t EXCEPT !.threw = TRUE], text |-> EmptyText, msg |-> m]

\* an extraction function is called with the file of the task
Called(t) == [t EXCEPT !.calls = @ + 1]

\* extractPdfText up to the start of its OCR pass (part_000:190-229)
PdfStart(i, t) ==
  LET f == FileOf(i)
      dp == DirectPass(i, f)
      c == Called(t)
  IN IF f.corrupt THEN Throws(c, PdfFailedMsg)
     ELSE IF DirectReturns(i, f) THEN Returns(c, Trim(dp.fullText))
     ELSE IF Len(f.pages) = 0 THEN Returns(c, EmptyText)
     ELSE More([c EXCEPT !.pc = "ocr", !.p = 1, !.acc = <<>>])

\* one turn of the OCR loop of extractPdfText (part_000:230-260): page p is
\* rendered and handed to ocrCanvas; any throw becomes PdfFailedMsg
PdfOcrPage(i, t) ==
  LET f == FileOf(i)
      called == [t EXCEPT !.log = Append(@, t.p)]
      acc == Append(t.acc, OcrChunk(i, f, t.p))
  IN IF ~tesseract THEN Throws(called, PdfFailedMsg)
     ELSE IF t.p = Len(f.pages) THEN Returns([called EXCEPT !.acc = <<>>], Trim(acc))
     ELSE More([called EXCEPT !.p = t.p + 1, !.acc = acc])

\* extractWordViaServer (part_000:145-154)
WordViaServer(i, t, up) ==
  LET r == UploadExtract(i, FileOf(i))
  IN IF ~up THEN Throws(Called(t), <<"Failed to fetch">>)
     ELSE IF r.status # 200 THEN Throws(Called(t), r.error)
     ELSE Returns(Called(t), Trim(r.text))

\* the finally block of ocrImageBlob (part_000:177-179): it runs whether
\* recognize resolved or rejected
revokeObjectURL_OnReturnOnly(t, resolved) ==
  IF resolved THEN [t EXCEPT !.revoked = @ + 1] ELSE t

revokeObjectURL(t, resolved) == [t EXCEPT !.revoked = @ + 1]

\* ocrImageBlob (part_000:170-180); Tesseract.recognize resolves or rejects
ocrImageBlob(i, t, resolved) ==
  IF ~tesseract THEN Throws(Called(t), OcrNotReadyMsg)
  ELSE LET url == [Called(t) EXCEPT !.created = @ + 1, !.log = Append(@, 1)]
           settled == revokeObjectURL(url, resolved)
       IN IF resolved
          THEN Returns(settled, Trim(<<OcrChunk(i, FileOf(i), 1)>>))
          ELSE Throws(settled, <<"recognize rejected">>)

(***************************************************************************)
(* onFileChange after an extraction step (part_000:568-583).               *)
(***************************************************************************)
\* the body of the pendingFile effect up to its first await
\* (part_000:600-606), run when pendingFile becomes file i
processFileStart(u) ==
  [u EXCEPT !.loading = TRUE, !.error = NoError, !.aiResult = NoContent,
            !.analysisJson = NoJson, !.applicable = Null]

\* the classifier gate on the extracted text
ValGate(i, t, text) ==
  IF ~isLikelyCircular(text)
  THEN /\ ui' = [ui EXCEPT !.error = NotCircularMsg, !.loading = FALSE]
       /\ notes' = notes \cup {"Invalid Circular Document"}
       /\ val' = [val EXCEPT ![i] = [t EXCEPT !.pc = "done", !.acc = <<>>]]
       /\ UNCHANGED <<route, input, proc>>
  ELSE /\ ui' = processFileStart([ui EXCEPT !.pendingFile = i])
       /\ notes' = notes \cup {"Circular Detected"}
       /\ val' = [val EXCEPT ![i] = [t EXCEPT !.pc = "wait", !.acc = <<>>]]
       /\ proc' = [proc EXCEPT ![i] = [IdleTask EXCEPT !.pc = "extract"]]
       /\ UNCHANGED <<route, input>>

\* the catch and finally of onFileChange
ValCatch(i, t, m) ==
  /\ ui' = [resetInput([ui EXCEPT !.error = ProcessingErrorMsg(m)]) EXCEPT !.loading = FALSE]
  /\ input' = NoFile
  /\ val' = [val EXCEPT ![i] = [t EXCEPT !.pc = "done", !.acc = <<>>]]
  /\ UNCHANGED <<route, notes, proc>>

ValApply(i, out) ==
  /\ CASE out.kind = "more" ->
            /\ val' = [val EXCEPT ![i] = out.task]
            /\ UNCHANGED <<route, ui, notes, input, proc>>
       [] out.kind = "throw" -> ValCatch(i, out.task, out.msg)
       [] out.kind = "text" -> ValGate(i, out.task, out.text)
  /\ UNCHANGED <<route, tesseract, picker, sels, ana, proxy>>

\* the extraction of onFileChange (part_000:559-567) is answered
ValExtract(i) ==
  /\ val[i].pc = "extract"
  /\ LET f == FileOf(i)
         t == val[i]
     IN IF f.type = PdfMime THEN ValApply(i, PdfStart(i, t))
        ELSE IF isWordFile(f) THEN \E up \in BOOLEAN : ValApply(i, WordViaServer(i, t, up))
        ELSE IF IsImageMime(f.type)
          THEN \E resolved \in BOOLEAN : ValApply(i, ocrImageBlob(i, t, resolved))
        ELSE ValApply(i, Returns(t, EmptyText))

ValOcrPage(i) ==
  /\ val[i].pc = "ocr"
  /\ ValApply(i, PdfOcrPage(i, val[i]))

\* the 100 ms pause of onFileChange ends (part_000:576, 581-583)
ValFinish(i) ==
  /\ val[i].pc = "wait"
  /\ val' = [val EXCEPT ![i].pc = "done"]
  /\ ui' = [ui EXCEPT !.loading = FALSE]
  /\ UNCHANGED <<route, notes, tesseract, input, picker, sels, proc, ana, proxy>>

(***************************************************************************)
(* processFile, the pendingFile effect (part_000:593-632).                 *)
(***************************************************************************)
\* sensitivity variant of ProcFinish: the analysis starts by itself once
\* text is extracted
ProcFinish_AutoAnalyze(i, t, text) ==
  /\ proc' = [proc EXCEPT ![i] = [t EXCEPT !.pc = "done", !.acc = <<>>]]
  /\ IF ana.pc = "idle" /\ text # <<>>
     THEN /\ ui' = [ui EXCEPT !.extracted = text, !.loading = FALSE, !.aiLoading = TRUE]
          /\ ana' = [ana EXCEPT !.pc = "fetch", !.fetches = 1]
          /\ proxy' = [proxy EXCEPT !.pc = "recv", !.messages = 2]
          /\ UNCHANGED route
     ELSE /\ ui' = [ui EXCEPT !.extracted = text, !.loading = FALSE]
          /\ UNCHANGED <<route, ana, proxy>>

\* part_000:303-305
sessionHasInput(u) == TextLen(Trim(u.extracted)) > 0 \/ u.aiResult # NoContent

\* the effect on sessionHasInput (part_000:486-493), run after the render
\* in which its value changed
sessionEffect(old, new) ==
  IF sessionHasInput(old) /\ ~sessionHasInput(new)
  THEN [new EXCEPT !.extracted = EmptyText, !.aiResult = NoContent, !.analysisJson = NoJson]
  ELSE new

\* setExtracted(text) and the finally; no analysis is started
\* (part_000:620-621)
ProcFinish(i, t, text) ==
  /\ ui' = sessionEffect(ui, [ui EXCEPT !.extracted = text, !.loading = FALSE])
  /\ proc' = [proc EXCEPT ![i] = [t EXCEPT !.pc = "done", !.acc = <<>>]]
  /\ UNCHANGED <<route, ana, proxy>>

\* the catch and finally of processFile
ProcCatch(i, t) ==
  /\ ui' = [ui EXCEPT !.error = ProcessFailedMsg, !.loading = FALSE]
  /\ proc' = [proc EXCEPT ![i] = [t EXCEPT !.pc = "done", !.acc = <<>>]]
  /\ UNCHANGED <<route, ana, proxy>>

\* extractPdfText has returned text (part_000:613-618): under
\* AggregateMinChars characters, extractTextFromPdfViaOCR is called
ProcAfterPdf(i, t, text) ==
  IF TextLen(Trim(text)) < AggregateMinChars
  THEN IF NumPages(i) = 0
       THEN ProcFinish(i, t, EmptyText)
       ELSE /\ proc' = [proc EXCEPT ![i] = [Called(t) EXCEPT !.pc = "ocr2", !.p = 1, !.acc = <<>>]]
            /\ UNCHANGED <<route, ui, ana, proxy>>
  ELSE ProcFinish(i, t, text)

ProcApplyPdf(i, out) ==
  /\ CASE out.kind = "more" ->
            /\ proc' = [proc EXCEPT ![i] = out.task]
            /\ UNCHANGED <<route, ui, ana, proxy>>
       [] out.kind = "throw" -> ProcCatch(i, out.task)
       [] out.kind = "text" -> ProcAfterPdf(i, out.task, out.text)
  /\ UNCHANGED <<route, notes, tesseract, input, picker, sels, val>>

ProcApplyWord(i, out) ==
  /\ IF out.kind = "throw" THEN ProcCatch(i, out.task)
     ELSE ProcFinish(i, out.task, out.text)
  /\ UNCHANGED <<route, notes, tesseract, input, picker, sels, val>>

ProcExtract(i) ==
  /\ proc[i].pc = "extract"
  /\ LET f == FileOf(i)
         t == proc[i]
     IN IF isWordFile(f) THEN \E up \in BOOLEAN : ProcApplyWord(i, WordViaServer(i, t, up))
        ELSE IF f.type = PdfMime THEN ProcApplyPdf(i, PdfStart(i, t))
        ELSE ProcApplyWord(i, Returns(t, EmptyText))

ProcOcrPage(i) ==
  /\ proc[i].pc = "ocr"
  /\ ProcApplyPdf(i, PdfOcrPage(i, proc[i]))

\* one turn of the loop of extractTextFromPdfViaOCR (part_000:109-143):
\* a throw is caught and '' returned; empty page texts are not kept
ProcOcr2Page(i) ==
  /\ proc[i].pc = "ocr2"
  /\ LET f == FileOf(i)
         t == proc[i]
         called == [t EXCEPT !.log = Append(@, t.p)]
         c == OcrChunk(i, f, t.p)
         textParts == IF c.len > 0 THEN Append(t.acc, c) ELSE t.acc
     IN IF ~tesseract THEN ProcFinish(i, [called EXCEPT !.threw = TRUE], EmptyText)
        ELSE IF t.p = Len(f.pages) THEN ProcFinish(i, called, Trim(textParts))
        ELSE /\ proc' = [proc EXCEPT ![i] = [called EXCEPT !.p = t.p + 1, !.acc = textParts]]
             /\ UNCHANGED <<route, ui, ana, proxy>>
  /\ UNCHANGED <<route, notes, tesseract, input, picker, sels, val>>

(***************************************************************************)
(* Chat content.  The content of a completion is a string (its tokens) and *)
(* the value JSON.parse gives for it (json: <<>> when it is not JSON).     *)
(* A parsed value holds what the page reads of it: its truthiness, the     *)
(* field meta.bank_context.applicable ("true", "false", "null", "missing") *)
(* and its string values.                                                  *)
(***************************************************************************)
Value(applicable, strings) ==
  [truthy |-> TRUE, applicable |-> applicable, strings |-> strings]

RECURSIVE Quoted(_)
Quoted(strings) ==
  IF strings = <<>> THEN <<>>
  ELSE <<"\"">> \o Head(strings) \o <<"\"">> \o Quoted(Tail(strings))

\* JSON.stringify of an object: its string values, each between quotes
JsonStringify(v) == [words |-> <<"{">> \o Quoted(v.strings) \o <<"}">>, json |-> <<v>>]

PlainText(words) == [words |-> words, json |-> <<>>]

\* parseJsonStrict (part_000:376-383): the value, or null (<<>>)
parseJsonStrict(content) == content.json

\* the stub check of handleAnalyze (part_000:428-431)
StubPatterns == {<<"stub", "on", "error">>, <<"development", "stub">>, <<"dev", "stub">>}
\* sensitivity variant of IsStubContent: the test without its i flag
IsStubContent_CaseSensitive(words) == \E a \in StubPatterns : Occurs(a, words)

IsStubContent(words) == TestI(StubPatterns, words)

(***************************************************************************)
(* The model provider, as the proxy sees it: a completion, or an error     *)
(* with status and code (0: undefined; -1: a code that is not a number)    *)
(* and a message.                                                          *)
(***************************************************************************)
Completion(content) ==
  [ok |-> TRUE, content |-> content, status |-> 0, code |-> 0, message |-> <<>>]
ProviderError(status, code, message) ==
  [ok |-> FALSE, content |-> PlainText(<<>>), status |-> status, code |-> code, message |-> message]

Summary == <<"Banks", "must", "report", "quarterly">>

ProviderOutcomes ==
  { Completion(JsonStringify(Value("true", <<Summary>>))),
    Completion(JsonStringify(Value("false", <<Summary>>))),
    Completion(JsonStringify(Value("missing", <<Summary>>))),
    Completion(JsonStringify(Value("null", <<Summary>>))),
    Completion(JsonStringify(Value("false", <<<<"Development", "stub", "summary">>>>))),
    Completion(PlainText(<<"Key", "Points", ":", "report", "quarterly">>)),
    Completion(PlainText(<<"This", "is", "a", "DEV", "STUB", "answer">>)),
    Completion(PlainText(<<>>)),
    ProviderError(429, -1, <<"429", "Rate", "limit", "reached">>),
    ProviderError(0, 429, <<"Too", "many", "requests">>),
    ProviderError(403, -1, <<"You", "exceeded", "your", "current", "quota">>),
    ProviderError(500, -1, <<"500", "Internal", "server", "error">>),
    ProviderError(0, -1, <<"Connection", "error">>) }

(***************************************************************************)
(* POST /api/openai/chat (usePdfJs.ts:146-307).                            *)
(***************************************************************************)
\* `a || b` on numbers: 0 and undefined are falsy
OrElse(a, b) == IF a # 0 THEN a ELSE b

\* usePdfJs.ts:188-189
isRateLimit(e) ==
  LET status == OrElse(e.status, e.code)
  IN status = 429 \/ TestI({<<"rate", "limit">>, <<"quota">>}, e.message)

\* sensitivity variant of RetryAllowed: every error is tried again
RetryAllowed_AnyError(attempt, e) == attempt # MaxRetries

\* usePdfJs.ts:190: the error is thrown on, or the attempt made again
RetryAllowed(attempt, e) == ~(~isRateLimit(e) \/ attempt = MaxRetries)

\* sensitivity variant of DelayMs: the same wait before every retry
DelayMs_Flat(attempt) == Min(BaseDelayMs, MaxDelayMs)

\* usePdfJs.ts:193
DelayMs(attempt) == Min(BaseDelayMs * Pow2(attempt), MaxDelayMs)

\* usePdfJs.ts:205
Details(e) == IF e.message # <<>> THEN e.message ELSE <<"OpenAI request failed">>

\* sensitivity variant of AllowStub: any value of the flag turns the stub on
AllowStub_AnyValue(flag) == flag # "undefined"

\* usePdfJs.ts:209
AllowStub(flag) == LowerWord(flag) = "true"

\* sensitivity variant of StubContent: a payload that names no stub
StubContent_Unmarked(details) ==
  Value("true", << <<"REF", "-", "1">>, <<"Summary", "unavailable">> >>)

\* usePdfJs.ts:216-299: the string values of the synthetic payload
StubContent(details) ==
  Value("true",
        << <<"DEV", "-", "STUB", "-", "ON", "-", "ERROR">>,
           <<"Dev", "stub", "(", "OpenAI", "error", ")", ":">> \o details,
           <<"Dev", "stub", "returned", "due", "to", "OpenAI", "error", ".">>,
           <<"Development", "fallback", "summary", "(", "stub", "on", "error", ")", ".">>,
           <<"Stubbed", "point">>,
           <<"Potential", "non", "-", "compliance", "if", "ignored", "(", "dev", "-", "stub", ")", ".">> >>)

Response(status, error, content) == [status |-> status, error |-> error, content |-> content]
NoResponse == Response(0, NoError, PlainText(<<>>))

\* the catch of the route (usePdfJs.ts:204-306)
ErrorResponse(env, e) ==
  IF AllowStub(env.devStub)
  THEN Response(200, NoError, JsonStringify(StubContent(Details(e))))
  ELSE Response(OrElse(e.status, 500), Details(e), PlainText(<<>>))

\* process.env of the server: OPENAI_API_KEY is set, and DEV_STUB_ON_ERROR
\* as String() gives it
NoEnv == [hasKey |-> FALSE, devStub |-> "undefined"]
Envs == [hasKey : BOOLEAN, devStub : {"true", "TRUE", "1", "undefined"}]

KeyMissingMsg == <<"OpenAI API key is not configured">>
NoMessagesMsg == <<"messages must be a non-empty array">>

\* sensitivity variant of Admission: the body is looked at before the key
Admission_BodyFirst(env, messages) ==
  IF messages = 0 THEN Response(400, NoMessagesMsg, PlainText(<<>>))
  ELSE IF ~env.hasKey THEN Response(400, KeyMissingMsg, PlainText(<<>>))
  ELSE NoResponse

\* the checks before the provider is called (usePdfJs.ts:148-167): the
\* answer they end the request with, or NoResponse when they pass;
\* messages is the length of req.body.messages (0: absent or empty)
Admission(env, messages) ==
  IF ~env.hasKey THEN Response(400, KeyMissingMsg, PlainText(<<>>))
  ELSE IF messages = 0 THEN Response(400, NoMessagesMsg, PlainText(<<>>))
  ELSE NoResponse

ProxyIdle ==
  [pc |-> "idle", env |-> NoEnv, messages |-> 0, attempt |-> 0, calls |-> 0, delayMs |-> 0,
   waited |-> 0, outs |-> <<>>, gaps |-> <<>>, last |-> Completion(PlainText(<<>>)),
   resp |-> NoResponse]

Respond(px, r) ==
  [px EXCEPT !.pc = "done", !.resp = r, !.delayMs = 0, !.waited = 0]

\* the request arrives: the credential check (usePdfJs.ts:146-172); the
\* page always sends two messages
ProxyReceive(env) ==
  /\ proxy.pc = "recv"
  /\ LET answer == Admission(env, proxy.messages)
     IN proxy' = IF answer # NoResponse
                 THEN Respond([proxy EXCEPT !.env = env], answer)
                 ELSE [proxy EXCEPT !.pc = "call", !.env = env]
  /\ UNCHANGED <<route, ui, notes, ana, uploadVars>>

Digest(o) == IF o.ok THEN "ok" ELSE IF isRateLimit(o) THEN "rl" ELSE "err"

\* one turn of the loop of callOpenAIWithRetry (usePdfJs.ts:175-199), up to
\* its await of the timer, and what follows a return or a throw
ProviderAnswers(o) ==
  /\ proxy.pc = "call"
  /\ LET px == [proxy EXCEPT !.calls = @ + 1, !.outs = Append(@, Digest(o)), !.last = o]
     IN proxy' =
          IF o.ok THEN Respond(px, Response(200, NoError, o.content))
          ELSE IF ~RetryAllowed(proxy.attempt, o)
            THEN Respond(px, ErrorResponse(proxy.env, o))
          ELSE [px EXCEPT !.pc = "wait", !.delayMs = DelayMs(proxy.attempt), !.waited = 0]
  /\ UNCHANGED <<route, ui, notes, ana, uploadVars>>

\* time passes while the proxy waits
TimerTick ==
  /\ proxy.pc = "wait"
  /\ proxy.waited < proxy.delayMs + MaxLate * TickMs
  /\ proxy' = [proxy EXCEPT !.waited = @ + TickMs]
  /\ UNCHANGED <<route, ui, notes, ana, uploadVars>>

\* setTimeout(r, delayMs) fires, not before delayMs
TimerFires ==
  /\ proxy.pc = "wait"
  /\ proxy.waited >= proxy.delayMs
  /\ proxy' = [proxy EXCEPT !.pc = "call", !.attempt = @ + 1,
                            !.gaps = Append(@, [delay |-> proxy.delayMs, waited |-> proxy.waited]),
                            !.delayMs = 0, !.waited = 0]
  /\ UNCHANGED <<route, ui, notes, ana, uploadVars>>

\* a client of the route other than the page posts a body with n messages
CallerSends(n) ==
  /\ proxy.pc = "idle"
  /\ ana.pc = "idle"
  /\ proxy' = [ProxyIdle EXCEPT !.pc = "recv", !.messages = n]
  /\ UNCHANGED <<route, ui, notes, ana, uploadVars>>

\* and reads the answer
CallerReceives ==
  /\ proxy.pc = "done"
  /\ ana.pc = "idle"
  /\ proxy' = ProxyIdle
  /\ UNCHANGED <<route, ui, notes, ana, uploadVars>>

(***************************************************************************)
(* handleAnalyze (part_000:386-457), started by the Action button          *)
(* (part_000:732-739) or by Re-run (part_000:587-590, 740-748).            *)
(***************************************************************************)
NoTextMsg == <<"No text to analyze">>
Default429Msg == <<"OpenAI rate limit or quota exceeded (429). Please check your OpenAI plan/billing or try again later.">>
StubMsg == <<"AI returned stubbed content. Please ensure OPENAI_API_KEY is set on the server.">>
GenericMsg == <<"Failed to analyze document">>
AnalyzeFailedMsg(status) == <<"AI analyze failed (", ToString(status), ")">>

\* what the user may type into the text area (part_000:722-727)
UserText == <<Chunk(0, 1, "typed", 120, CircularWords)>>

TypeText ==
  /\ ui.extracted # UserText
  /\ ui' = [ui EXCEPT !.extracted = UserText]
  /\ UNCHANGED <<route, notes, ana, proxy, uploadVars>>

\* sensitivity variant of AnalyzeStart: the request is sent without
\* setAiResult('') and setAiLoading(true)
AnalyzeStart_NoReset ==
  IF TextLen(Trim(ui.extracted)) = 0
  THEN /\ ui' = [ui EXCEPT !.error = NoTextMsg, !.aiLoading = FALSE]
       /\ ana' = [ana EXCEPT !.n = @ + 1, !.fetches = 0]
       /\ UNCHANGED <<route, proxy>>
  ELSE /\ ui' = [ui EXCEPT !.error = NoError]
       /\ ana' = [ana EXCEPT !.pc = "fetch", !.n = @ + 1, !.fetches = 1]
       /\ proxy' = [ProxyIdle EXCEPT !.pc = "recv", !.messages = 2]

\* handleAnalyze up to its fetch
AnalyzeStart ==
  IF TextLen(Trim(ui.extracted)) = 0
  THEN /\ ui' = [ui EXCEPT !.error = NoTextMsg, !.aiLoading = FALSE]
       /\ ana' = [ana EXCEPT !.n = @ + 1, !.fetches = 0]
       /\ UNCHANGED <<route, proxy>>
  ELSE /\ ui' = [ui EXCEPT !.error = NoError, !.aiResult = NoContent, !.aiLoading = TRUE]
       /\ ana' = [ana EXCEPT !.pc = "fetch", !.n = @ + 1, !.fetches = 1]
       /\ proxy' = [ProxyIdle EXCEPT !.pc = "recv", !.messages = 2]

\* the Action button: handleAnalyze()
AnalyzeAction ==
  /\ ~ui.aiLoading
  /\ ana.n < MaxAnalyze
  /\ AnalyzeStart
  /\ UNCHANGED <<route, notes, uploadVars>>

\* the Re-run button: rerunAnalysisFresh
RerunAnalysis ==
  /\ ~ui.aiLoading
  /\ ana.n < MaxAnalyze
  /\ TextLen(Trim(ui.extracted)) # 0
  /\ AnalyzeStart
  /\ UNCHANGED <<route, notes, uploadVars>>

\* the catch and finally of handleAnalyze (part_000:444-456)
AnalyzeCatch(u, m) ==
  [u EXCEPT !.analysisJson = NoJson, !.applicable = Null,
            !.error = IF m = <<>> THEN GenericMsg ELSE m,
            !.aiLoading = FALSE]

IsOk(status) == status >= 200 /\ status <= 299

\* sensitivity variant of ApplicableOf: `|| null` in place of `?? null`
ApplicableOf_Truthy(v) == IF v.applicable = "true" THEN "true" ELSE Null

\* `parsed?.meta?.bank_context?.applicable ?? null`
ApplicableOf(v) == IF v.applicable \in {"missing", "null"} THEN Null ELSE v.applicable

\* handleAnalyze on the answer of its fetch (part_000:415-443): it throws
\* msg (after the notifications in notify), or returns with the parsed
\* value (json) or with the raw string (raw)
Thrown(msg, notify) ==
  [throws |-> TRUE, msg |-> msg, notify |-> notify, json |-> NoJson, raw |-> NoContent]
Returned(json, raw) ==
  [throws |-> FALSE, msg |-> NoError, notify |-> {}, json |-> json, raw |-> raw]

\* sensitivity variant of AnalyzeOutcome: 429 handled as any failed response
AnalyzeOutcome_No429(r) ==
  LET trimmed == r.content
      parsed == parseJsonStrict(trimmed)
  IN IF ~IsOk(r.status)
       THEN Thrown(IF r.error # <<>> THEN r.error ELSE AnalyzeFailedMsg(r.status), {})
     ELSE IF IsStubContent(trimmed.words)
       THEN Thrown(StubMsg, {})
     ELSE IF parsed # <<>> /\ parsed[1].truthy
       THEN Returned(parsed, NoContent)
     ELSE Returned(NoJson, trimmed.words)

AnalyzeOutcome(r) ==
  LET trimmed == r.content
      parsed == parseJsonStrict(trimmed)
  IN IF r.status = 429
       THEN Thrown(IF r.error # <<>> THEN r.error ELSE Default429Msg, {"OpenAI rate limit"})
     ELSE IF ~IsOk(r.status)
       THEN Thrown(IF r.error # <<>> THEN r.error ELSE AnalyzeFailedMsg(r.status), {})
     ELSE IF IsStubContent(trimmed.words)
       THEN Thrown(StubMsg, {})
     ELSE IF parsed # <<>> /\ parsed[1].truthy
       THEN Returned(parsed, NoContent)
     ELSE Returned(NoJson, trimmed.words)

\* handleAnalyze from the answer of its fetch to its end (part_000:415-456)
AnalyzeDone ==
  /\ ana.pc = "fetch"
  /\ proxy.pc = "done"
  /\ LET out == AnalyzeOutcome(proxy.resp)
     IN IF out.throws
        THEN /\ ui' = AnalyzeCatch(ui, out.msg)
             /\ notes' = notes \cup out.notify \cup {"AI analysis failed"}
        ELSE IF out.json # NoJson
        THEN /\ ui' = [ui EXCEPT !.analysisJson = out.json,
                                 !.applicable = ApplicableOf(out.json[1]),
                                 !.aiLoading = FALSE]
             /\ notes' = notes
        ELSE /\ ui' = [ui EXCEPT !.analysisJson = NoJson, !.aiResult = out.raw,
                                 !.aiLoading = FALSE]
             /\ notes' = notes
  /\ ana' = [ana EXCEPT !.pc = "idle"]
  /\ proxy' = ProxyIdle
  /\ UNCHANGED <<route, uploadVars>>

\* the fetch rejects: the request does not reach the server
FetchFails ==
  /\ ana.pc = "fetch"
  /\ proxy.pc = "recv"
  /\ ui' = AnalyzeCatch(ui, <<"Failed to fetch">>)
  /\ notes' = notes \cup {"AI analysis failed"}
  /\ ana' = [ana EXCEPT !.pc = "idle"]
  /\ proxy' = ProxyIdle
  /\ UNCHANGED <<route, uploadVars>>

(***************************************************************************)
(* createAiTasksNow (part_000:642-656).                                    *)
(***************************************************************************)
\* sensitivity variant of TaskGate: the verdict alone is looked at
TaskGate_VerdictOnly(u) ==
  IF u.applicable # "true" THEN "Not Applicable" ELSE "Ready to create tasks"

\* the title of the notification createAiTasksNow ends with
TaskGate(u) ==
  IF u.analysisJson = NoJson THEN "Run analysis first"
  ELSE IF u.applicable # "true" THEN "Not Applicable"
  ELSE "Ready to create tasks"

\* one of the buttons that call createAiTasksNow is on the page
\* (part_000:767-770, 898-901, 986-989)
TaskButtonShown(u) ==
  /\ u.applicable = "true"
  /\ (u.analysisJson # NoJson \/ u.aiResult # NoContent)

\* the fallback result panel is rendered (part_000:873)
FallbackPanelShown(u) ==
  u.analysisJson = NoJson /\ u.aiResult # NoContent /\ u.applicable # Null

createAiTasksNow ==
  /\ TaskButtonShown(ui)
  /\ TaskGate(ui) \notin notes
  /\ notes' = notes \cup {TaskGate(ui)}
  /\ UNCHANGED <<route, ui, ana, proxy, uploadVars>>

(***************************************************************************)
(* POST /api/upload/extract as any client may call it.  Two handlers are   *)
(* registered for the route (usePdfJs.ts:310 and 800); Express gives a     *)
(* request to them in the order of registration, and to the next one only  *)
(* when a handler calls next().                                            *)
(***************************************************************************)
\* a multipart request: without the field `file` (0), or with a file
UploadRequests == 0..Len(AllFiles)
UploadRequest(k) ==
  IF k = 0
  THEN [attached |-> FALSE,
        file |-> [type |-> "", name |-> "", corrupt |-> FALSE, pages |-> <<>>]]
  ELSE [attached |-> TRUE, file |-> AllFiles[k]]

\* the handler registered first (usePdfJs.ts:310-350)
ExtractHandler1(req) ==
  IF ~req.attached
  THEN [status |-> 400, error |-> <<"No file uploaded">>, text |-> EmptyText]
  ELSE UploadExtract(0, req.file)

\* the handler registered second (usePdfJs.ts:800-828)
ExtractHandler2(req) ==
  LET f == req.file
      isDocx == f.type = DocxMime \/ Ext(f.name) = "docx"
      isDoc == f.type = DocMime \/ Ext(f.name) = "doc"
  IN IF ~req.attached
     THEN [status |-> 400, error |-> <<"No file uploaded">>, text |-> EmptyText]
     ELSE IF isDocx
       THEN IF f.corrupt
            THEN [status |-> 500, error |-> <<"Extraction failed">>, text |-> EmptyText]
            ELSE [status |-> 200, error |-> NoError,
                  text |-> Trim(<<Chunk(0, 1, "word", f.pages[1].d, f.pages[1].dw)>>)]
     ELSE IF isDoc
       THEN [status |-> 415,
             error |-> <<"DOC format not supported on server. Please convert to DOCX and retry.">>,
             text |-> EmptyText]
     ELSE [status |-> 415, error |-> <<"Unsupported file type for extraction">>,
           text |-> EmptyText]

\* the route: the handlers in the order of registration; the second one is
\* given the request only if the first calls next(), which it never does
\* (it takes (req, res) and answers on every path)
ExtractRoute(req) ==
  LET firstCallsNext == FALSE
  IN IF firstCallsNext THEN ExtractHandler2(req) ELSE ExtractHandler1(req)

RouteIdle ==
  [pc |-> "idle", req |-> 0, statuses |-> {},
   res |-> [status |-> 0, error |-> NoError, text |-> EmptyText]]

UploadSends(k) ==
  /\ route.pc = "idle"
  /\ route' = [route EXCEPT !.pc = "recv", !.req = k, !.res = RouteIdle.res]
  /\ UNCHANGED <<ui, notes, ana, proxy, uploadVars>>

UploadAnswered ==
  /\ route.pc = "recv"
  /\ LET r == ExtractRoute(UploadRequest(route.req))
     IN route' = [route EXCEPT !.pc = "done", !.res = r,
                               !.statuses = @ \cup {r.status}]
  /\ UNCHANGED <<ui, notes, ana, proxy, uploadVars>>

UploadReceives ==
  /\ route.pc = "done"
  /\ route' = [route EXCEPT !.pc = "idle"]
  /\ UNCHANGED <<ui, notes, ana, proxy, uploadVars>>

(***************************************************************************)
(* Specifications.                                                         *)
(***************************************************************************)
Init ==
  /\ ui = InitUI
  /\ notes = {}
  /\ tesseract \in BOOLEAN
  /\ input = NoFile
  /\ picker = FALSE
  /\ sels = <<>>
  /\ val = <<>>
  /\ proc = <<>>
  /\ ana = [pc |-> "idle", n |-> 0, fetches |-> 0]
  /\ proxy = ProxyIdle
  /\ route = RouteIdle

UploadNext ==
  \/ TesseractLoaded
  \/ ClickInput
  \/ CancelPicker
  \/ \E fid \in FileIds : SelectFile(fid)
  \/ \E i \in Sel : ValExtract(i)
  \/ \E i \in Sel : ValOcrPage(i)
  \/ \E i \in Sel : ValFinish(i)
  \/ \E i \in Sel : ProcExtract(i)
  \/ \E i \in Sel : ProcOcrPage(i)
  \/ \E i \in Sel : ProcOcr2Page(i)

ProxyNext ==
  \/ \E env \in Envs : ProxyReceive(env)
  \/ \E o \in ProviderOutcomes : ProviderAnswers(o)
  \/ TimerTick
  \/ TimerFires

AnalyzeNext ==
  \/ TypeText
  \/ AnalyzeAction
  \/ RerunAnalysis
  \/ AnalyzeDone
  \/ FetchFails
  \/ ProxyNext

Next == UploadNext \/ AnalyzeNext

\* the whole page and the proxy
Spec == Init /\ [][Next]_vars

\* the upload pipeline alone: no analysis is started
SpecUpload == Init /\ [][UploadNext]_vars

\* the page as a whole, upload, analysis and task creation, on a choice of
\* files, environments and provider outcomes
\* files selected in a session of SpecPage
MaxPageSelect == 1
PageFiles == {2, 3, 4}
PageEnvs == {[hasKey |-> TRUE, devStub |-> "undefined"]}
PageOutcomes ==
  { Completion(JsonStringify(Value("true", <<Summary>>))),
    Completion(PlainText(<<"Key", "Points", ":", "report", "quarterly">>)),
    ProviderError(500, -1, <<"500", "Internal", "server", "error">>) }

PageNext ==
  \/ TesseractLoaded
  \/ ClickInput
  \/ CancelPicker
  \/ \E fid \in PageFiles : (Len(sels) < MaxPageSelect /\ SelectFile(fid))
  \/ \E i \in Sel : ValExtract(i)
  \/ \E i \in Sel : ValOcrPage(i)
  \/ \E i \in Sel : ValFinish(i)
  \/ \E i \in Sel : ProcExtract(i)
  \/ \E i \in Sel : ProcOcrPage(i)
  \/ \E i \in Sel : ProcOcr2Page(i)
  \/ AnalyzeAction
  \/ RerunAnalysis
  \/ AnalyzeDone
  \/ FetchFails
  \/ createAiTasksNow
  \/ \E env \in PageEnvs : ProxyReceive(env)
  \/ \E o \in PageOutcomes : ProviderAnswers(o)

SpecPage == Init /\ [][PageNext]_vars

\* the upload of files without a MIME type and of legacy Word files, next
\* to typed Word files (6 and the last of AllFiles)
RoutingNext ==
  \/ TesseractLoaded
  \/ ClickInput
  \/ CancelPicker
  \/ \E fid \in UntypedIds \cup LegacyIds \cup {6, Len(AllFiles)} : SelectFile(fid)
  \/ \E i \in Sel : ValExtract(i)
  \/ \E i \in Sel : ValFinish(i)
  \/ \E i \in Sel : ProcExtract(i)

SpecRouting == Init /\ [][RoutingNext]_vars

\* the proxy alone, under any client
SpecProxy ==
  Init /\ [][ProxyNext \/ (\E n \in 0..2 : CallerSends(n)) \/ CallerReceives]_vars

\* a file of an unsupported type and a Word file chosen while typed text is
\* analysed
RejectFiles == {6, 7}
RejectNext ==
  \/ ClickInput
  \/ CancelPicker
  \/ \E fid \in RejectFiles : SelectFile(fid)
  \/ \E i \in Sel : ValExtract(i)
  \/ \E i \in Sel : ValFinish(i)
  \/ \E i \in Sel : ProcExtract(i)
  \/ TypeText
  \/ AnalyzeAction
  \/ AnalyzeDone
  \/ \E env \in PageEnvs : ProxyReceive(env)
  \/ ProviderAnswers(Completion(PlainText(<<"Key", "Points", ":", "report", "quarterly">>)))

SpecReject == Init /\ [][RejectNext]_vars

\* the uploads that can come to OCR: the readable PDFs and the image
OcrNext ==
  \/ TesseractLoaded
  \/ ClickInput
  \/ CancelPicker
  \/ \E fid \in {1, 2, 3, 4, 5, 9} : SelectFile(fid)
  \/ \E i \in Sel : ValExtract(i)
  \/ \E i \in Sel : ValOcrPage(i)
  \/ \E i \in Sel : ValFinish(i)
  \/ \E i \in Sel : ProcExtract(i)
  \/ \E i \in Sel : ProcOcrPage(i)
  \/ \E i \in Sel : ProcOcr2Page(i)

SpecOcr == Init /\ [][OcrNext]_vars

\* the upload route alone, under any client
RouteNext ==
  \/ \E k \in UploadRequests : UploadSends(k)
  \/ UploadAnswered
  \/ UploadReceives

SpecRoute == Init /\ [][RouteNext]_vars

\* the analysis of typed text: the file input is opened but no file chosen
SpecAnalyze == Init /\ [][AnalyzeNext \/ ClickInput \/ CancelPicker]_vars

(***************************************************************************)
(* Properties.                                                             *)
(***************************************************************************)
IsPdf(f) == f.type = PdfMime /\ ~f.corrupt

\* every page of f yields at least 50 characters of direct text
EveryPageHasText(f) == \A p \in 1..Len(f.pages) : f.pages[p].d >= 50

\* the characters of the direct text of all pages, joined by blank lines
RECURSIVE DirectCharsFrom(_, _)
DirectCharsFrom(f, p) ==
  IF p > Len(f.pages) THEN 0
  ELSE f.pages[p].d + (IF p < Len(f.pages) THEN 2 ELSE 0) + DirectCharsFrom(f, p + 1)

DirectChars(f) == DirectCharsFrom(f, 1)

\* OCR was invoked for selection i, by onFileChange or by processFile
OcrInvoked(i) == val[i].log # <<>> \/ proc[i].log # <<>>

\* C1 as claimed: for a PDF whose every page has at least 50 characters of
\* direct text, the upload pipeline never invokes OCR on any page.
C1_NoOcrWhenEveryPageHasText ==
  \A i \in Sel :
     (IsPdf(FileOf(i)) /\ EveryPageHasText(FileOf(i))) => ~OcrInvoked(i)

\* C1 as amended: for a PDF whose every page has at least 50 characters of
\* direct text and whose direct text has at least 100 characters in all,
\* the upload pipeline never invokes OCR on any page.
C1_NoOcrWhenTextLayerIsEnough ==
  \A i \in Sel :
     (/\ IsPdf(FileOf(i))
      /\ EveryPageHasText(FileOf(i))
      /\ DirectChars(FileOf(i)) >= 100) => ~OcrInvoked(i)

\* a native PDF went through the whole pipeline and its text is displayed
C1_Witness ==
  \E i \in Sel :
     /\ IsPdf(FileOf(i)) /\ EveryPageHasText(FileOf(i)) /\ DirectChars(FileOf(i)) >= 100
     /\ val[i].pc = "done" /\ proc[i].pc = "done"
     /\ ui.extracted # EmptyText /\ ui.extracted[1].sel = i

\* selection i has been replaced: a newer file was chosen, or the input was
\* clicked (which clears it and opens the dialog)
Replaced(i) == i < Len(sels) \/ picker

\* C2: the displayed extracted text never belongs to a file that the user
\* has already replaced or cleared: a result that resolves late is dropped.
C2_NoStaleExtractedText ==
  \A k \in 1..Len(ui.extracted) :
     ui.extracted[k].sel \in Sel => ~Replaced(ui.extracted[k].sel)

\* the upload of selection i has ended and nothing threw
EndedCleanly(i) ==
  /\ val[i].pc = "done" /\ ~val[i].threw
  /\ proc[i].pc \in {"idle", "done"} /\ ~proc[i].threw

\* OCR was invoked on the pages 1..N of selection i, in this order
OcrRanOnEveryPage(i) ==
  LET log == val[i].log \o proc[i].log
      N == NumPages(i)
  IN Len(log) >= N /\ SubSeq(log, 1, N) = [p \in 1..N |-> p]

\* C3: for a PDF whose direct text has under 100 characters in all, the OCR
\* fallback runs on every page 1..N in page order (checked once the upload
\* of the file has ended without an exception).
C3_OcrFallbackRunsOnEveryPage ==
  \A i \in Sel :
     (IsPdf(FileOf(i)) /\ DirectChars(FileOf(i)) < 100 /\ EndedCleanly(i))
        => OcrRanOnEveryPage(i)

\* onFileChange of selection i ends in this step because the classifier
\* rejected its text
RejectedNow(i) ==
  /\ val[i].pc \in {"extract", "ocr"}
  /\ val'[i].pc = "done"
  /\ ~val'[i].threw

\* C4: whenever isLikelyCircular rejects an upload, the upload ends with the
\* validation error set, no pending file and the extracted text empty.
C4_RejectionResetsState ==
  [][\A i \in Sel :
       RejectedNow(i) =>
          /\ ui'.error = NotCircularMsg
          /\ ui'.pendingFile = NoFile
          /\ ui'.extracted = EmptyText]_vars

\* handleAnalyze ends in this step on the answer r of the proxy
AnalyzeEndsOn(r) ==
  /\ ana.pc = "fetch"
  /\ proxy.pc = "done"
  /\ proxy.resp = r
  /\ ana'.pc = "idle"

\* the content holds "development stub", "dev stub" or "stub on error", in
\* any letter case
HasStubMarker(words) ==
  \E i \in 1..Len(words) :
     \/ /\ i + 1 <= Len(words)
        /\ LowerWord(words[i]) \in {"development", "dev"}
        /\ LowerWord(words[i + 1]) = "stub"
     \/ /\ i + 2 <= Len(words)
        /\ LowerWord(words[i]) = "stub"
        /\ LowerWord(words[i + 1]) = "on"
        /\ LowerWord(words[i + 2]) = "error"

\* C5: on a response whose message content holds a stub marker, valid JSON
\* or not, handleAnalyze ends with the stub error set and with analysisJson
\* null, aiResult empty and applicable null.
C5_StubContentIsRejected ==
  [][(/\ AnalyzeEndsOn(proxy.resp)
      /\ IsOk(proxy.resp.status)
      /\ HasStubMarker(proxy.resp.content.words))
       => /\ ui'.error = StubMsg
          /\ ui'.analysisJson = NoJson
          /\ ui'.aiResult = NoContent
          /\ ui'.applicable = Null]_vars

\* a stub answer was rejected after an earlier run had produced a result
C5_Witness ==
  /\ ui.error = StubMsg
  /\ ana.pc = "idle"
  /\ ana.n = 2

\* the proxy has answered 200 although the last provider call failed: the
\* synthetic payload
SyntheticReturned ==
  /\ proxy.pc = "done"
  /\ proxy.outs # <<>>
  /\ ~proxy.last.ok
  /\ proxy.resp.status = 200

\* C6: whatever the provider error, the synthetic payload of the proxy is
\* rejected by handleAnalyze as stub content and becomes neither
\* analysisJson nor aiResult.
C6_SyntheticPayloadIsRejected ==
  [][(SyntheticReturned /\ AnalyzeEndsOn(proxy.resp))
       => /\ ui'.error = StubMsg
          /\ ui'.analysisJson = NoJson
          /\ ui'.aiResult = NoContent]_vars

\* the proxy has returned the synthetic payload for a provider error that
\* is no rate limit
C6_Witness ==
  /\ SyntheticReturned
  /\ proxy.outs = <<"err">>
  /\ proxy.resp.content.json # <<>>

\* C7: a rate-limit failure followed by a success is answered 200 with the
\* completion and no error, the second attempt starting at least 2000 ms
\* after the first failed; the wait before retry k is
\* min(2000 * 2^(k-1), 8000) ms.
C7_RetryAfterBackoff ==
  /\ \A k \in 1..Len(proxy.gaps) :
        /\ proxy.gaps[k].delay = Min(2000 * Pow2(k - 1), 8000)
        /\ proxy.gaps[k].waited >= proxy.gaps[k].delay
  /\ (proxy.pc = "done" /\ proxy.outs = <<"rl", "ok">>)
       => /\ proxy.resp.status = 200
          /\ proxy.resp.error = NoError
          /\ proxy.resp.content = proxy.last.content
          /\ Len(proxy.gaps) = 1
          /\ proxy.gaps[1].waited >= 2000

\* a 429 on the first attempt, a completion on the second
C7_Witness ==
  /\ proxy.pc = "done"
  /\ proxy.outs = <<"rl", "ok">>
  /\ proxy.last.content.json # <<>>

\* C8: a request makes at most 3 provider calls; a call after the first is
\* made only after a rate-limit failure; any other outcome ends the request
\* with the call that gave it.
C8_BoundedRetries ==
  /\ proxy.calls <= 3
  /\ proxy.calls = Len(proxy.outs)
  /\ \A k \in 1..Len(proxy.outs) :
        /\ (k > 1 => proxy.outs[k - 1] = "rl")
        /\ (proxy.outs[k] # "rl" => (k = Len(proxy.outs) /\ proxy.pc = "done"))

\* three calls were made, and one call ended a request on another error
C8_Witness ==
  /\ proxy.pc = "done"
  /\ proxy.calls = 3
  /\ proxy.outs[3] = "err"

\* C9: when every attempt fails with a rate-limit error and the stub flag is
\* off, the proxy answers with HTTP status 429.
C9_RateLimitIsAnswered429 ==
  (/\ proxy.pc = "done"
   /\ ~AllowStub(proxy.env.devStub)
   /\ Len(proxy.outs) = 3
   /\ \A k \in 1..3 : proxy.outs[k] = "rl")
    => proxy.resp.status = 429

\* C10: on a 429 from the proxy, handleAnalyze sends no further request,
\* posts the rate-limit notification, sets an error that is none of the
\* generic failure messages, and leaves analysisJson null, aiResult empty,
\* applicable null and aiLoading false.
C10_RateLimitIsSurfaced ==
  [][(AnalyzeEndsOn(proxy.resp) /\ proxy.resp.status = 429)
       => /\ ana'.fetches = 1
          /\ proxy'.pc = "idle"
          /\ "OpenAI rate limit" \in notes'
          /\ ui'.error \in {proxy.resp.error, Default429Msg}
          /\ ui'.error \notin {NoError, GenericMsg, AnalyzeFailedMsg(429)}
          /\ ui'.analysisJson = NoJson
          /\ ui'.aiResult = NoContent
          /\ ui'.applicable = Null
          /\ ui'.aiLoading = FALSE]_vars

\* the second run of a session ended on a 429
C10_Witness ==
  /\ "OpenAI rate limit" \in notes
  /\ ana.pc = "idle"
  /\ ana.n = 2
  /\ ui.error = <<"429", "Rate", "limit", "reached">>

\* C11: without OPENAI_API_KEY every request is answered 400 with the
\* error that names the missing key, no provider call is made and no
\* content is returned, whatever DEV_STUB_ON_ERROR and the body are.
C11_MissingKeyFailsFast ==
  /\ proxy.pc \in {"call", "wait"} => proxy.env.hasKey
  /\ (proxy.pc = "done" /\ ~proxy.env.hasKey)
       => /\ proxy.resp.status = 400
          /\ proxy.resp.error = <<"OpenAI API key is not configured">>
          /\ proxy.resp.content = PlainText(<<>>)
          /\ proxy.calls = 0

\* a request without messages was refused for the missing key with the
\* stub flag on
C11_Witness ==
  /\ proxy.pc = "done"
  /\ ~proxy.env.hasKey
  /\ proxy.env.devStub = "true"
  /\ proxy.messages = 0

\* the request ended on a failed provider call
ProviderFailed ==
  /\ proxy.pc = "done"
  /\ proxy.outs # <<>>
  /\ ~proxy.last.ok

\* the answer is not 2xx, carries the provider's error and no content
AnsweredWithError ==
  /\ ~(proxy.resp.status >= 200 /\ proxy.resp.status <= 299)
  /\ proxy.resp.error # NoError
  /\ proxy.resp.error = proxy.last.message
  /\ proxy.resp.content = PlainText(<<>>)

\* C12 as stated: with DEV_STUB_ON_ERROR anything but the string 'true',
\* every provider failure is answered with a non-2xx error.
C12_StubOnlyWhenFlagIsTrue ==
  (ProviderFailed /\ proxy.env.devStub # "true") => AnsweredWithError

\* C12: with DEV_STUB_ON_ERROR unset or anything but 'true' in some letter
\* case, every provider failure, rate limit or not, is answered with a
\* non-2xx error and never with 200 and generated content.
C12_StubOnlyWhenFlagIsTrueInAnyCase ==
  (ProviderFailed /\ LowerWord(proxy.env.devStub) # "true") => AnsweredWithError

\* three rate-limit failures with the flag set to '1'
C12_Witness ==
  /\ ProviderFailed
  /\ proxy.env.devStub = "1"
  /\ proxy.calls = 3
  /\ proxy.resp.status = 429

\* a request to /api/openai/chat leaves the page in this step
RequestSent == proxy'.pc = "recv" /\ proxy.pc # "recv"

\* C13: a request is sent only in the step of a press of Action or Re-run
\* (ana.n counts the presses), with no analysis running; the steps of file
\* selection, validation and extraction send none.
C13_AnalysisOnlyOnUserAction ==
  [][RequestSent => /\ ana'.n = ana.n + 1
                    /\ ana.pc = "idle"
                    /\ ~ui.aiLoading
                    /\ UNCHANGED uploadVars]_vars

\* an upload was accepted and its text extracted, and the first request,
\* for that text, is on its way
C13_Witness ==
  /\ proxy.pc = "recv"
  /\ ana.n = 1
  /\ Len(sels) = 1
  /\ val[1].pc = "done"
  /\ proc[1].pc = "done"
  /\ ui.extracted # EmptyText
  /\ ui.extracted[1].sel = 1

\* what the response r alone determines of analysisJson, aiResult and
\* applicable: the parsed value and its applicability, or the raw text, or
\* nothing when the run failed
Structured(r) ==
  /\ r.status >= 200 /\ r.status <= 299
  /\ ~HasStubMarker(r.content.words)
  /\ r.content.json # <<>>

Unstructured(r) ==
  /\ r.status >= 200 /\ r.status <= 299
  /\ ~HasStubMarker(r.content.words)
  /\ r.content.json = <<>>

FieldOf(r) ==
  IF r.content.json[1].applicable \in {"true", "false"}
  THEN r.content.json[1].applicable ELSE "null"

ResultOf(r) ==
  IF Structured(r)
    THEN [analysisJson |-> r.content.json, aiResult |-> <<>>, applicable |-> FieldOf(r)]
  ELSE IF Unstructured(r)
    THEN [analysisJson |-> <<>>, aiResult |-> r.content.words, applicable |-> "null"]
  ELSE [analysisJson |-> <<>>, aiResult |-> <<>>, applicable |-> "null"]

\* C14: when a run of handleAnalyze ends, analysisJson, aiResult and
\* applicable are what that run's response determines; nothing of an
\* earlier run is kept.
C14_ResultReplacedWholesale ==
  [][AnalyzeEndsOn(proxy.resp)
       => /\ ui'.analysisJson = ResultOf(proxy.resp).analysisJson
          /\ ui'.aiResult = ResultOf(proxy.resp).aiResult
          /\ ui'.applicable = ResultOf(proxy.resp).applicable]_vars

\* createAiTasksNow reaches its last step in this step
TasksReady ==
  /\ "Ready to create tasks" \notin notes
  /\ "Ready to create tasks" \in notes'

\* C15: createAiTasksNow reaches 'Ready to create tasks' only with a
\* structured result in analysisJson that says applicable, applicable
\* exactly true and no raw fallback text: never on an unstructured or a
\* failed analysis.
C15_TasksNeedStructuredResult ==
  [][TasksReady => /\ ui.analysisJson # <<>>
                   /\ ui.analysisJson[1].applicable = "true"
                   /\ ui.applicable = "true"
                   /\ ui.aiResult = <<>>]_vars

\* createAiTasksNow went through once, and was once refused on a fallback
\* result shown with an applicability left from an earlier run
C15_Witness ==
  /\ "Ready to create tasks" \in notes
  /\ "Run analysis first" \in notes

\* the run ends on a 2xx response whose content is JSON with
\* meta.bank_context.applicable = a ("missing": no such field)
EndsOnJsonWith(a) ==
  /\ AnalyzeEndsOn(proxy.resp)
  /\ proxy.resp.status >= 200 /\ proxy.resp.status <= 299
  /\ proxy.resp.content.json # <<>>
  /\ proxy.resp.content.json[1].applicable = a

\* C16 as stated: after a response that is valid JSON with applicable =
\* false the applicability state is false; with the field missing or null
\* it is null.
C16_ApplicableFollowsResponse ==
  [][/\ EndsOnJsonWith("false") => ui'.applicable = "false"
     /\ EndsOnJsonWith("missing") => ui'.applicable = "null"
     /\ EndsOnJsonWith("null") => ui'.applicable = "null"]_vars

\* C16: after a response that is valid JSON without a stub marker and with
\* applicable = false the applicability state is exactly false; with the
\* field missing or null it is null.
C16_ApplicableFollowsGenuineResponse ==
  [][/\ (EndsOnJsonWith("false") /\ Structured(proxy.resp)) => ui'.applicable = "false"
     /\ (EndsOnJsonWith("missing") /\ Structured(proxy.resp)) => ui'.applicable = "null"
     /\ (EndsOnJsonWith("null") /\ Structured(proxy.resp)) => ui'.applicable = "null"]_vars

\* a structured result that says not applicable is on the page
C16_Witness ==
  /\ ana.pc = "idle"
  /\ ui.applicable = "false"
  /\ ui.analysisJson # <<>>
  /\ ui.analysisJson[1].applicable = "false"

\* the extraction functions called for selection i: extractPdfText,
\* extractWordViaServer, ocrImageBlob, extractTextFromPdfViaOCR
ExtractionCalls(i) == val[i].calls + proc[i].calls

\* C17: a selected file is handed to text extraction at most once.
C17_ExtractedOnce ==
  \A i \in Sel : ExtractionCalls(i) <= 1

\* selection i is the file in the input and its upload has ended
UploadEnded(i) ==
  /\ i = Len(sels)
  /\ input = i
  /\ ~picker
  /\ val[i].pc = "done"
  /\ proc[i].pc = "done"

\* C18: after the upload of an image that passed the classifier, the
\* extracted text is what OCR read from the image.
C18_ImageTextIsOcrOutput ==
  \A i \in Sel :
     (UploadEnded(i) /\ FileOf(i).type \in {"image/png", "image/jpeg", "image/webp"})
       => ui.extracted = <<OcrChunk(i, FileOf(i), 1)>>

\* the extraction of selection i has thrown
Threw(i) == val[i].threw \/ proc[i].threw

\* C19: in the step in which the extraction of a PDF throws and the throw
\* is handled, in the validation, in the processing or in the
\* under-100-characters OCR fallback, an error is shown and no text of
\* that document is in the extracted text.
C19_PdfFailureIsSurfaced ==
  [][\A i \in Sel :
        (FileOf(i).type = "application/pdf" /\ ~Threw(i) /\ Threw(i)')
          => /\ ui'.error # <<>>
             /\ \A k \in 1..Len(ui'.extracted) : ui'.extracted[k].sel # i]_vars

\* C20: a file without MIME type whose name ends in .pdf, .png or .docx is
\* handed to an extraction function by the validation step (extractPdfText,
\* ocrImageBlob, extractWordViaServer), as its extension says.
C20_ExtensionRoutesExtraction ==
  \A i \in Sel :
     (/\ FileOf(i).type = ""
      /\ FileOf(i).name \in {"untyped.pdf", "untyped.png", "untyped.docx"}
      /\ val[i].pc \in {"wait", "done"})
       => val[i].calls = 1


\* the upload route has answered the request it was sent
RouteAnswered == route.pc = "done"
RouteFile == UploadRequest(route.req).file
RouteHasFile == UploadRequest(route.req).attached

\* C21: POST /api/upload/extract answers a request without a file with 400
\* and a request with a file of an unsupported type (neither its MIME type
\* nor its extension is one of the upload types) with 415, each with an
\* error in the body.
C21_UnsupportedTypeIs415 ==
  RouteAnswered =>
    /\ ~RouteHasFile => (route.res.status = 400 /\ route.res.error # NoError)
    /\ (RouteHasFile /\ RouteFile.type \notin validTypes
          /\ Ext(RouteFile.name) \notin {"pdf", "doc", "docx", "png", "jpg", "jpeg", "webp"})
         => (route.res.status = 415 /\ route.res.error # NoError)

\* C21: a text file was sent to the route and it has answered
C21_Reached ==
  RouteAnswered /\ RouteHasFile /\ RouteFile.name = "notes.txt"


IsLegacyDoc(f) == f.type = "application/msword" \/ Ext(f.name) = "doc"
ValidationEnds(i) == val[i].pc # "done" /\ val'[i].pc = "done"

\* C22: in the step that ends the validation of a legacy .doc file whose
\* upload reached the server, the file has been sent to the server once,
\* the error shown is the server's instruction to convert the file to
\* DOCX, and no text was extracted.
C22_LegacyDocGetsConvertInstruction ==
  [][\A i \in Sel :
        (/\ IsLegacyDoc(FileOf(i)) /\ ValidationEnds(i)
         /\ ui'.error # <<"Error processing file: ", "Failed to fetch">>)
          => /\ val'[i].calls = 1
             /\ ui'.error = <<"Error processing file: ",
                   "DOC format not supported on server. Please convert to DOCX and retry.">>
             /\ ui'.extracted = EmptyText
             /\ ui'.pendingFile = NoFile]_vars

\* C22: the validation of legacy.doc has ended on the answer of the server
C22_Reached ==
  \E i \in Sel :
     /\ FileOf(i).name = "legacy.doc" /\ val[i].pc = "done" /\ val[i].calls = 1
     /\ ui.error = <<"Error processing file: ", "Unsupported file type: ", "application/msword">>


UnsupportedFile(f) ==
  /\ f.type \notin {"application/pdf", "application/msword",
                    "application/vnd.openxmlformats-officedocument.wordprocessingml.document",
                    "image/png", "image/jpeg", "image/jpg", "image/webp"}
  /\ Ext(f.name) \notin {"pdf", "doc", "docx", "png", "jpg", "jpeg", "webp"}

\* C23: the step in which a file of unsupported MIME type and extension is
\* selected changes, of the page state, the error alone; it starts no
\* extraction, no processing, no analysis and posts no notification; and
\* no later step calls an extraction function for that file.
C23_UnsupportedFileOnlySetsError ==
  [][/\ \A i \in 1..Len(sels') :
          (i > Len(sels) /\ UnsupportedFile(AllFiles[sels'[i]]))
            => /\ ui' = [ui EXCEPT !.error =
                     <<"Please upload a valid PDF, Word document, or image file">>]
               /\ val'[i] = [IdleTask EXCEPT !.pc = "done"]
               /\ proc'[i] = IdleTask
               /\ ana' = ana /\ proxy' = proxy /\ notes' = notes
     /\ \A i \in Sel :
          UnsupportedFile(FileOf(i))
            => (val'[i] = val[i] /\ proc'[i] = proc[i] /\ ui'.pendingFile # i)]_vars

\* C23: notes.txt is the selection of the file input and its validation
\* error is shown, while an earlier upload is still loading under its own
\* file name and the result of an analysis is on the page
C23_Witness ==
  \E i \in Sel :
     /\ FileOf(i).name = "notes.txt"
     /\ input = i
     /\ ui.error = <<"Please upload a valid PDF, Word document, or image file">>
     /\ ui.loading /\ ui.aiResult # NoContent /\ ui.fileName # "notes.txt"


\* the error shown for a PDF that is corrupted or password protected
CorruptedPdfError ==
  <<"Error processing file: ",
    "Failed to extract text from PDF. The file might be corrupted or password protected.">>

\* C24: when the validation of a readable image or PDF ends in a throw
\* while the OCR engine is not loaded, an error is shown and it is not the
\* one shown for a corrupted or protected file.
C24_OcrNotReadyIsDistinguishable ==
  [][\A i \in Sel :
        (/\ ValidationEnds(i) /\ val'[i].threw
         /\ ~tesseract /\ ~FileOf(i).corrupt
         /\ (FileOf(i).type = "application/pdf" \/ FileOf(i).type = "image/png"))
          => /\ ui'.error # NoError
             /\ ui'.error # CorruptedPdfError]_vars

\* C24: the validation of scanned.pdf has thrown with the OCR engine not
\* loaded, and the error shown is the one of a corrupted file
C24_Reached ==
  \E i \in Sel :
     /\ FileOf(i).name = "scanned.pdf" /\ val[i].pc = "done" /\ val[i].threw
     /\ ~tesseract
     /\ ui.error = CorruptedPdfError


\* the validation of selection i has called ocrImageBlob and the call has
\* returned or thrown
ImageOcrSettled(i) ==
  FileOf(i).type = "image/png" /\ val[i].pc # "extract" /\ val[i].calls = 1

\* C25: once ocrImageBlob has returned or thrown, every object URL it
\* created has been revoked, and none was revoked that was not created.
C25_ObjectUrlsAreRevoked ==
  \A i \in Sel : ImageOcrSettled(i) => val[i].revoked = val[i].created

\* C25: ocrImageBlob created an object URL and recognize rejected
C25_Witness ==
  \E i \in Sel :
     ImageOcrSettled(i) /\ val[i].threw /\ val[i].created = 1 /\ val[i].revoked = 1


\* 2-4 upper-case letters, "/", 2-4 digits, "/" or "-", 2-4 digits
HasReferenceCode(words) ==
  \E k \in 1..Len(words) :
     /\ k + 4 <= Len(words)
     /\ words[k] \in {"AB", "RBI", "SEBI"}
     /\ words[k + 1] = "/"
     /\ words[k + 2] \in {"2024", "2025"}
     /\ words[k + 3] \in {"/", "-"}
     /\ words[k + 4] \in {"01", "12"}

\* C26: when the server returns the text of a Word document and that text
\* carries a reference code, the gate of onFileChange accepts it: the
\* validation goes on to processing instead of ending in a rejection.
C26_ReferenceCodeIsAccepted ==
  [][\A i \in Sel :
        (/\ FileOf(i).type = DocxMime
         /\ HasReferenceCode(FileOf(i).pages[1].dw)
         /\ val[i].pc = "extract" /\ val'[i].pc # "extract" /\ ~val'[i].threw)
          => /\ val'[i].pc = "wait"
             /\ ui'.pendingFile = i]_vars

\* C26: the text of coded.docx was returned and the gate rejected it
C26_Reached ==
  \E i \in Sel :
     /\ FileOf(i).name = "coded.docx"
     /\ val[i].pc = "done" /\ val[i].calls = 1 /\ ~val[i].threw
     /\ proc[i].pc = "idle"
     /\ "Invalid Circular Document" \in notes


\* C27: when a run of handleAnalyze ends on a response whose content is
\* not marked as a stub, is not JSON and is not empty, the content is
\* stored as aiResult, analysisJson is null and the fallback panel that
\* shows aiResult is rendered.
C27_FallbackResultIsShown ==
  [][(/\ AnalyzeEndsOn(proxy.resp)
      /\ Unstructured(proxy.resp)
      /\ proxy.resp.content.words # <<>>)
       => /\ ui'.aiResult = proxy.resp.content.words
          /\ ui'.analysisJson = <<>>
          /\ FallbackPanelShown(ui')]_vars

\* C27: the first analysis has ended on plain text: it is stored and
\* the fallback panel is not rendered
C27_Reached ==
  /\ ana.n = 1 /\ ana.pc = "idle"
  /\ ui.aiResult = <<"Key", "Points", ":", "report", "quarterly">>
  /\ ui.analysisJson = <<>>
  /\ ~FallbackPanelShown(ui)


\* C28: a result of an analysis is on the page only while the text that
\* was analysed is still the extracted text: after the input was cleared
\* with a request in flight, the response of that request is dropped.
C28_NoResultForClearedText ==
  (ui.analysisJson # <<>> \/ ui.aiResult # <<>>) => TextLen(ui.extracted) > 0

\* C28: the input was cleared while the only request was in flight, and
\* its structured result is on the page with no extracted text
C28_Reached ==
  /\ ana.n = 1 /\ ana.pc = "idle"
  /\ ui.extracted = EmptyText
  /\ ui.analysisJson # <<>> /\ ui.applicable = "true"


\* the text with which the validation of selection i passed the gate: the
\* text layer of a PDF when the first pass returned it, else what OCR read
\* from its pages; the server's text of a Word file; what OCR read from
\* an image
GateText(i) ==
  LET f == FileOf(i)
  IN IF f.type = "application/pdf"
       THEN IF DirectReturns(i, f)
            THEN Trim(DirectPass(i, f).fullText)
            ELSE Trim([p \in 1..Len(f.pages) |-> OcrChunk(i, f, p)])
     ELSE IF isWordFile(f) THEN Trim(UploadExtract(i, f).text)
     ELSE Trim(<<OcrChunk(i, f, 1)>>)

\* C29: in the step in which the processing of an accepted upload ends
\* without a throw, the text stored as extracted is the text with which
\* that upload passed the gate.
C29_StoredTextIsGatedText ==
  [][\A i \in Sel :
        (proc[i].pc \notin {"idle", "done"} /\ proc'[i].pc = "done" /\ ~proc'[i].threw)
          => ui'.extracted = GateText(i)]_vars

\* C29: short.pdf passed the gate with its text layer and the text stored
\* is what OCR read from it
C29_Reached ==
  \E i \in Sel :
     /\ FileOf(i).name = "short.pdf"
     /\ proc[i].pc = "done" /\ ~proc[i].threw
     /\ ui.extracted = <<OcrChunk(i, FileOf(i), 1)>>
     /\ GateText(i) = <<DirectChunk(i, FileOf(i), 1)>>


\* C30: a structured and an unstructured result are never on the page
\* together; while a request of handleAnalyze is in flight aiLoading is
\* true, which disables the Action and Re-run buttons; and a request is
\* sent only when none is in flight.
C30_OneResultOneRequest ==
  /\ [](ui.analysisJson # <<>> => ui.aiResult = <<>>)
  /\ []((ana.pc = "fetch" \/ proxy.pc # "idle") => ui.aiLoading)
  /\ [][RequestSent => (ana.pc = "idle" /\ proxy.pc = "idle")]_vars

\* C30: the result of a first analysis, structured, is on the page and a
\* second request is in flight
C30_Witness ==
  /\ ana.n = 2 /\ ana.pc = "fetch" /\ proxy.pc = "recv"
  /\ ui.aiLoading
  /\ ui.analysisJson # <<>> /\ ui.aiResult = <<>>

=============================================================================
